---- MODULE Spec2Model ----
(***************************************************************************)
(* PolicyNav Pro (src/milestone1/app.py): the credential store (one SQLite *)
(* table reached through execute_query), the session token issuer          *)
(* (create_token / verify_token) and the Streamlit session state machine   *)
(* (login, signup, forgot, dashboard).                                     *)
(*                                                                         *)
(* Every script run of a session is a sequence of store round trips; each  *)
(* round trip (one execute_query call) is atomic in SQLite, and runs of    *)
(* different sessions interleave between round trips.  A session's         *)
(* position inside a handler is pc[s]; the handler's local variables are   *)
(* loc[s].                                                                 *)
(*                                                                         *)
(* Values.  Python None is <<>> in a slot that holds a tuple (a fetched    *)
(* row, a token) and NoneS in a slot that holds a str.  A token is the     *)
(* three segments of a compact JWS, <<header, payload, signature>>.  A     *)
(* SHA-256 digest is the pair <<"sha256", plaintext>>: injective and never *)
(* equal to a plaintext.                                                   *)
(*                                                                         *)
(* Time.  clock counts ticks of 1/TicksPerSecond s.  datetime.utcnow() is  *)
(* the clock itself; the integer "exp" claim PyJWT writes and SQLite's     *)
(* CURRENT_TIMESTAMP are whole seconds.                                    *)
(***************************************************************************)
EXTENDS Integers, Sequences, FiniteSets, TLC

(* ------------------------------ bounds -------------------------------- *)
NumSessions == 2
MaxLogins == 2
TicksPerSecond == 2
IssueSpan == 3
MaxChat == 3
MaxFaults == 1

(* ------------------------- program constants -------------------------- *)
SECRET_KEY == "super_secret_key_for_demo_2024_enhanced"
ALGORITHM == "HS256"
ACCESS_TOKEN_EXPIRE_MINUTES == 30
MinPasswordLen == 8

None == <<>>
NoneS == "<None>"

Sessions == 1..NumSessions

(* ------------------------------ inputs -------------------------------- *)
Emails == {"a@x.com", "b@x.com"}
EmailInputs == Emails \cup {""}
PasswordInputs == {"", "longpass1", "newpass1"}
AnswerInputs == {"", "Rex", "Tom"}
PetQuestion == "What is your pet's name?"
CarQuestion == "What was your first car?"
OtherKey == "some_other_key"

VARIABLES
    users,       \* the rows of table users, in insertion order
    openConns,   \* connections opened and not closed
    clock,       \* the wall clock, in ticks
    jwt,         \* st.session_state.jwt, per session
    page,        \* st.session_state.page
    reset,       \* st.session_state.reset
    q,           \* st.session_state.q
    chat,        \* st.session_state.chat_history / chat_input_key
    pc,          \* where the session's running handler stands
    loc,         \* the running handler's local variables
    issued,      \* history: tokens issued per email
    created,     \* history: successful save_user calls per email
    stats_lost,  \* history: update_login_stats calls whose UPDATE failed, per email
    faults,      \* history: round trips that failed so far
    tok,         \* token functions on their own: the token under test
    vres,        \* token functions on their own: the last verify_token call
    trip         \* store operations on their own: the last operation's round trips

vars == <<users, openConns, clock, jwt, page, reset, q, chat, pc, loc,
          issued, created, stats_lost, faults, tok, vres, trip>>

(* ======================= credential store ============================= *)

\* line 77
hash_password(password) == <<"sha256", password>>

Q_SELECT_EMAIL == "SELECT email FROM users WHERE email = ?"
Q_INSERT == "INSERT INTO users (username, email, password, security_question, security_answer) VALUES (?, ?, ?, ?, ?)"
Q_SELECT_USER == "SELECT username, password, COALESCE(login_count, 0) FROM users WHERE email=?"
Q_UPDATE_STATS == "UPDATE users SET last_login = CURRENT_TIMESTAMP, login_count = COALESCE(login_count, 0) + 1 WHERE email=?"
Q_SELECT_QUESTION == "SELECT security_question FROM users WHERE email=?"
Q_SELECT_ANSWER == "SELECT id FROM users WHERE email=? AND security_answer=?"
Q_UPDATE_PASSWORD == "UPDATE users SET password=? WHERE email=?"

\* SQLite's CURRENT_TIMESTAMP: the clock in whole seconds
CURRENT_TIMESTAMP(now) == now \div TicksPerSecond

\* FROM users WHERE email=?: the rows selected
WhereEmail(db, email) == SelectSeq(db, LAMBDA r : r.email = email)

\* FROM users WHERE email=? AND security_answer=?: the rows selected
WhereEmailAndAnswer(db, email, answer) ==
    SelectSeq(db, LAMBDA r : r.email = email /\ r.security_answer = answer)

\* cursor.fetchone(): the first row of the result set, or None
fetchone(rows) == IF rows = <<>> THEN None ELSE Head(rows)

\* the schema of table users (lines 55-65): a new row, with its defaults
NewRow(db, params) ==
    [id |-> Len(db) + 1,
     username |-> params[1],
     email |-> params[2],
     password |-> params[3],
     security_question |-> params[4],
     security_answer |-> params[5],
     last_login |-> None,
     login_count |-> 0]

\* the column declared without UNIQUE: no INSERT is refused
NoUniqueConstraint(db, email) == FALSE

\* email TEXT NOT NULL UNIQUE (line 58): the INSERT is refused
UniqueEmailViolated(db, email) == \E i \in 1..Len(db) : db[i].email = email

\* the counter left out of the SET clause
SetLoginStats_stamp_only(r, now) ==
    [r EXCEPT !.last_login = <<CURRENT_TIMESTAMP(now)>>]

\* SET last_login = CURRENT_TIMESTAMP, login_count = COALESCE(login_count, 0) + 1
\* (lines 116-118)
SetLoginStats(r, now) ==
    [r EXCEPT !.last_login = <<CURRENT_TIMESTAMP(now)>>, !.login_count = @ + 1]

\* the row replaced instead of updated: login_count falls back to its default
SetPassword_replacing_row(r, digest) ==
    [r EXCEPT !.password = digest, !.login_count = 0]

\* SET password=? (line 144)
SetPassword(r, digest) == [r EXCEPT !.password = digest]

\* UPDATE users SET last_login = ..., login_count = ... WHERE email=?
UpdateLoginStats(db, email, now) ==
    [i \in 1..Len(db) |-> IF db[i].email = email THEN SetLoginStats(db[i], now) ELSE db[i]]

\* UPDATE users SET password=? WHERE email=?
UpdatePassword(db, digest, email) ==
    [i \in 1..Len(db) |-> IF db[i].email = email THEN SetPassword(db[i], digest) ELSE db[i]]

\* cur.execute(query, params) against the table: the rows it changes, the
\* row fetchone() then yields, or the exception SQLite raises
cur_execute(db, query, params, now) ==
    CASE query = Q_SELECT_EMAIL ->
           LET rows == WhereEmail(db, params[1])
           IN  [raises |-> FALSE, db |-> db, error |-> "",
                row |-> fetchone([i \in 1..Len(rows) |-> <<rows[i].email>>])]
      [] query = Q_INSERT ->
           IF UniqueEmailViolated(db, params[2])
           THEN [raises |-> TRUE, db |-> db, row |-> None,
                 error |-> "UNIQUE constraint failed: users.email"]
           ELSE [raises |-> FALSE, db |-> Append(db, NewRow(db, params)),
                 row |-> None, error |-> ""]
      [] query = Q_SELECT_USER ->
           LET rows == WhereEmail(db, params[1])
           IN  [raises |-> FALSE, db |-> db, error |-> "",
                row |-> fetchone([i \in 1..Len(rows) |->
                           <<rows[i].username, rows[i].password, rows[i].login_count>>])]
      [] query = Q_UPDATE_STATS ->
           [raises |-> FALSE, row |-> None, error |-> "",
            db |-> UpdateLoginStats(db, params[1], now)]
      [] query = Q_SELECT_QUESTION ->
           LET rows == WhereEmail(db, params[1])
           IN  [raises |-> FALSE, db |-> db, error |-> "",
                row |-> fetchone([i \in 1..Len(rows) |-> <<rows[i].security_question>>])]
      [] query = Q_SELECT_ANSWER ->
           LET rows == WhereEmailAndAnswer(db, params[1], params[2])
           IN  [raises |-> FALSE, db |-> db, error |-> "",
                row |-> fetchone([i \in 1..Len(rows) |-> <<rows[i].id>>])]
      [] query = Q_UPDATE_PASSWORD ->
           [raises |-> FALSE, row |-> None, error |-> "",
            db |-> UpdatePassword(db, params[1], params[2])]

\* What can go wrong in one round trip besides a constraint: sqlite3.connect
\* fails, the statement fails (database is locked, disk I/O error), or the
\* commit fails (disk full)
Faults == {"none", "connect", "execute", "commit"}

\* connections a round trip leaves open: those it opened less those it closed
OpenAfter(trace) ==
    Cardinality({i \in 1..Len(trace) : trace[i] = "connect"})
        - Cardinality({i \in 1..Len(trace) : trace[i] = "close"})

\* the context manager without its finally clause: close() only after commit
get_db_connection_no_finally(db, body, fault) ==
    LET trace == IF fault = "connect" THEN <<"connect failed">>
                 ELSE IF body.raises THEN <<"connect", "execute failed", "rollback">>
                 ELSE IF fault = "commit"
                 THEN <<"connect", "execute", "commit failed", "rollback">>
                 ELSE <<"connect", "execute", "commit", "close">>
    IN  IF fault = "connect" \/ body.raises \/ fault = "commit"
        THEN [raised |-> TRUE, db |-> db, error |-> "error", trace |-> trace,
              open |-> OpenAfter(trace)]
        ELSE [raised |-> FALSE, db |-> body.db, error |-> "", trace |-> trace,
              open |-> OpenAfter(trace)]

\* lines 17-31: connect; run the body; commit, or roll back and re-raise;
\* close whatever was opened.  body is what the with-block did; its writes
\* reach the table only through commit.  (A write's body commits itself,
\* line 44; the commit of line 24 then finds nothing to do.)
get_db_connection(db, body, fault) ==
    IF fault = "connect"
    THEN LET trace == <<"connect failed">>
         IN  [raised |-> TRUE, db |-> db, error |-> "unable to open database file",
              trace |-> trace, open |-> OpenAfter(trace)]
    ELSE IF body.raises
    THEN LET trace == <<"connect", "execute failed", "rollback", "close">>
         IN  [raised |-> TRUE, db |-> db, error |-> body.error,
              trace |-> trace, open |-> OpenAfter(trace)]
    ELSE IF fault = "commit"
    THEN LET trace == <<"connect", "execute", "commit failed", "rollback", "close">>
         IN  [raised |-> TRUE, db |-> db, error |-> "database or disk is full",
              trace |-> trace, open |-> OpenAfter(trace)]
    ELSE LET trace == <<"connect", "execute", "commit", "close">>
         IN  [raised |-> FALSE, db |-> body.db, error |-> "",
              trace |-> trace, open |-> OpenAfter(trace)]

\* lines 33-47
execute_query(db, query, params, fetch_one, fault, now) ==
    LET body == IF fault = "execute"
                THEN [raises |-> TRUE, db |-> db, row |-> None,
                      error |-> "database is locked"]
                ELSE cur_execute(db, query, params, now)
        conn == get_db_connection(db, body, fault)
    IN  IF conn.raised
        THEN [value |-> IF fetch_one THEN None ELSE FALSE,
              db |-> conn.db, raised |-> FALSE, failed |-> TRUE,
              st_error |-> "Database error: " \o conn.error,
              trace |-> conn.trace, open |-> conn.open]
        ELSE [value |-> IF fetch_one THEN body.row ELSE TRUE,
              db |-> conn.db, raised |-> FALSE, failed |-> FALSE,
              st_error |-> "",
              trace |-> conn.trace, open |-> conn.open]

(* ========================= session tokens ============================= *)

\* datetime.timedelta(minutes=ACCESS_TOKEN_EXPIRE_MINUTES), in ticks
ExpireTicks == ACCESS_TOKEN_EXPIRE_MINUTES * 60 * TicksPerSecond

\* HMAC of the signing input under a key: equal exactly for the same key
\* and the same payload
Sign(payload, key) == [key |-> key, over |-> payload]

\* the signing key mistaken: the algorithm name passed as the key
jwt_encode_wrong_key(payload, key, algorithm) ==
    LET claims == [payload EXCEPT !.exp = @ \div TicksPerSecond]
    IN  <<algorithm, claims, Sign(claims, algorithm)>>

\* jwt.encode (line 155): a datetime "exp" is written as an integer number
\* of seconds, timegm(exp.utctimetuple()), which drops the fraction
jwt_encode(payload, key, algorithm) ==
    LET claims == [payload EXCEPT !.exp = @ \div TicksPerSecond]
    IN  <<algorithm, claims, Sign(claims, key)>>

\* lines 149-155
create_token(email, username, now) ==
    jwt_encode([sub |-> email, username |-> username, exp |-> now + ExpireTicks],
               SECRET_KEY, ALGORITHM)

\* decoding with options={"verify_exp": False}: the expiry is not looked at
jwt_decode_no_exp(token, key, algorithms, now) ==
    IF Len(token) # 3
    THEN [raised |-> TRUE, error |-> "DecodeError", claims |-> None]
    ELSE IF token[1] \notin algorithms
    THEN [raised |-> TRUE, error |-> "InvalidAlgorithmError", claims |-> None]
    ELSE IF token[3] # Sign(token[2], key)
    THEN [raised |-> TRUE, error |-> "InvalidSignatureError", claims |-> None]
    ELSE [raised |-> FALSE, error |-> "", claims |-> <<token[2]>>]

\* jwt.decode (line 159): three segments, an allowed algorithm, a matching
\* signature, and exp still ahead of the clock (PyJWT: exp <= now is expired)
jwt_decode(token, key, algorithms, now) ==
    IF Len(token) # 3
    THEN [raised |-> TRUE, error |-> "DecodeError", claims |-> None]
    ELSE IF token[1] \notin algorithms
    THEN [raised |-> TRUE, error |-> "InvalidAlgorithmError", claims |-> None]
    ELSE IF token[3] # Sign(token[2], key)
    THEN [raised |-> TRUE, error |-> "InvalidSignatureError", claims |-> None]
    ELSE IF token[2].exp * TicksPerSecond <= now
    THEN [raised |-> TRUE, error |-> "ExpiredSignatureError", claims |-> None]
    ELSE [raised |-> FALSE, error |-> "", claims |-> <<token[2]>>]

\* lines 157-161: the claims (in a one-element tuple), or None
verify_token(token, now) ==
    LET d == jwt_decode(token, SECRET_KEY, {ALGORITHM}, now)
    IN  IF d.raised
        THEN [value |-> None, raised |-> FALSE]
        ELSE [value |-> d.claims, raised |-> FALSE]


(* ==================== credential store operations ===================== *)
\* Each operation yields its return value together with what the round
\* trip did: the table afterwards (db), whether the statement failed
\* (failed), whether an exception left the operation (raised), and the
\* connections it left open (open).

\* lines 82-89, the first round trip of save_user: the existence check.
\* done: save_user returns here with (ok, message).
save_user_check(db, email, fault, now) ==
    LET existing == execute_query(db, Q_SELECT_EMAIL, <<email>>, TRUE, fault, now)
    IN  [done |-> existing.value # None, ok |-> FALSE,
         message |-> IF existing.value # None THEN "Email already exists" ELSE "",
         db |-> existing.db, failed |-> existing.failed, raised |-> existing.raised,
         open |-> existing.open, trace |-> existing.trace]

\* the result of the INSERT not looked at: success whatever it returned
save_user_insert_unchecked(db, username, email, password, question, answer, fault, now) ==
    LET success == execute_query(db, Q_INSERT,
                       <<username, email, hash_password(password), question,
                         hash_password(answer)>>, FALSE, fault, now)
    IN  [ok |-> TRUE, message |-> "Success",
         db |-> success.db, failed |-> success.failed, raised |-> success.raised,
         open |-> success.open, trace |-> success.trace]

\* lines 91-101, the second round trip of save_user: the INSERT
save_user_insert(db, username, email, password, question, answer, fault, now) ==
    LET success == execute_query(db, Q_INSERT,
                       <<username, email, hash_password(password), question,
                         hash_password(answer)>>, FALSE, fault, now)
    IN  [ok |-> success.value,
         message |-> IF success.value THEN "Success" ELSE "Failed to create account",
         db |-> success.db, failed |-> success.failed, raised |-> success.raised,
         open |-> success.open, trace |-> success.trace]

\* lines 105-111
get_user(db, email, fault, now) ==
    execute_query(db, Q_SELECT_USER, <<email>>, TRUE, fault, now)

\* without the try/except, and with a failed UPDATE passed on as an exception
update_login_stats_raising(db, email, fault, now) ==
    LET r == execute_query(db, Q_UPDATE_STATS, <<email>>, FALSE, fault, now)
    IN  [value |-> TRUE, db |-> r.db, failed |-> r.failed, raised |-> r.failed,
         open |-> r.open, trace |-> r.trace]

\* lines 113-124: the result of execute_query is not looked at
update_login_stats(db, email, fault, now) ==
    LET r == execute_query(db, Q_UPDATE_STATS, <<email>>, FALSE, fault, now)
    IN  [value |-> ~r.raised, db |-> r.db, failed |-> r.failed, raised |-> FALSE,
         open |-> r.open, trace |-> r.trace]

\* lines 126-132
get_question(db, email, fault, now) ==
    LET result == execute_query(db, Q_SELECT_QUESTION, <<email>>, TRUE, fault, now)
    IN  [value |-> IF result.value # None THEN result.value[1] ELSE NoneS,
         db |-> result.db, failed |-> result.failed, raised |-> result.raised,
         open |-> result.open, trace |-> result.trace]

\* the answer left out of the WHERE clause
check_answer_email_only(db, email, ans, fault, now) ==
    LET result == execute_query(db, Q_SELECT_QUESTION, <<email>>, TRUE, fault, now)
    IN  [value |-> result.value # None,
         db |-> result.db, failed |-> result.failed, raised |-> result.raised,
         open |-> result.open, trace |-> result.trace]

\* lines 134-140
check_answer(db, email, ans, fault, now) ==
    LET result == execute_query(db, Q_SELECT_ANSWER, <<email, hash_password(ans)>>,
                                TRUE, fault, now)
    IN  [value |-> result.value # None,
         db |-> result.db, failed |-> result.failed, raised |-> result.raised,
         open |-> result.open, trace |-> result.trace]

\* the digest taken of the wrong argument
update_password_wrong_digest(db, email, pwd, fault, now) ==
    execute_query(db, Q_UPDATE_PASSWORD, <<hash_password(email), email>>, FALSE, fault, now)

\* lines 142-146
update_password(db, email, pwd, fault, now) ==
    execute_query(db, Q_UPDATE_PASSWORD, <<hash_password(pwd), email>>, FALSE, fault, now)

(* ========================== session state ============================= *)

\* the handler's locals between two round trips; call_failed remembers
\* that a round trip of the running call has failed
NoLoc == [username |-> "", email |-> "", password |-> "",
          security_question |-> "", security_answer |-> "", new_password |-> "",
          call_failed |-> FALSE]

\* 'chat_history' not in st.session_state; chat_input_key = 0 (lines 172-173)
NoChat == [present |-> FALSE, chat_history |-> <<>>, chat_input_key |-> 0]

\* a token handed to verify_token, and where it came from: create_token
\* (genuine, with its arguments and the clock at the call) or elsewhere
NoTok == [token |-> None, genuine |-> FALSE, email |-> "", username |-> "", issued_at |-> 0]

\* no store operation called yet
NoTrip == [called |-> FALSE, op |-> "", before |-> <<>>, trips |-> <<>>]

\* lines 164-173, after init_database() created the empty table (line 74)
Init ==
    /\ users = <<>>
    /\ openConns = 0
    /\ clock = 0
    /\ jwt = [s \in Sessions |-> None]
    /\ page = [s \in Sessions |-> "login"]
    /\ reset = [s \in Sessions |-> NoneS]
    /\ q = [s \in Sessions |-> NoneS]
    /\ chat = [s \in Sessions |-> NoChat]
    /\ pc = [s \in Sessions |-> "idle"]
    /\ loc = [s \in Sessions |-> NoLoc]
    /\ issued = [e \in Emails |-> 0]
    /\ created = [e \in Emails |-> 0]
    /\ stats_lost = [e \in Emails |-> 0]
    /\ faults = 0
    /\ tok = NoTok
    /\ vres = [called |-> FALSE, call |-> NoTok, value |-> None, raised |-> FALSE, at |-> 0]
    /\ trip = NoTrip

\* bool(x) of a str slot: None and "" are falsy
Truthy(x) == x # NoneS /\ x # ""

\* which screen the script run shows (lines 826-835)
Screen(s) ==
    IF jwt[s] # None THEN "dashboard"
    ELSE IF page[s] = "signup" THEN "signup"
    ELSE IF page[s] = "forgot" THEN "forgot"
    ELSE "login"

\* no handler of the session is between two round trips
Idle(s) == pc[s] = "idle"

\* re.match(r"[^@]+@[^@]+\.[a-zA-Z]{2,}", email), on the addresses typed here
re_match_email(email) == email \in {"a@x.com", "b@x.com"}

Bump(f, e) == [f EXCEPT ![e] = @ + 1]

\* a round trip fails only while fewer than MaxFaults have failed
Inject(fault) ==
    /\ fault # "none" => faults < MaxFaults
    /\ faults' = IF fault = "none" THEN faults ELSE faults + 1

\* lines 731-735: a dashboard run sets chat_history up when it is missing
Rendered(c) ==
    IF c.present THEN c ELSE [c EXCEPT !.present = TRUE, !.chat_history = <<"bot">>]

(* ============================= signup ================================= *)

Form(username, email, password, confirm_password, question, answer, terms) ==
    [username |-> username, email |-> email, password |-> password,
     confirm_password |-> confirm_password, security_question |-> question,
     security_answer |-> answer, terms |-> terms]

\* what a visitor may type into the signup screen
SignupForms ==
    { Form("alice", "a@x.com", "longpass1", "longpass1", PetQuestion, "Rex", TRUE),
      Form("bob", "a@x.com", "longpass1", "longpass1", PetQuestion, "Rex", TRUE),
      Form("bob", "b@x.com", "newpass1", "newpass1", CarQuestion, "Tom", TRUE),
      Form("", "a@x.com", "longpass1", "longpass1", PetQuestion, "Rex", TRUE),
      Form("alice", "a.x.com", "longpass1", "longpass1", PetQuestion, "Rex", TRUE),
      Form("alice", "a@x.com", "short", "short", PetQuestion, "Rex", TRUE),
      Form("alice", "a@x.com", "longpass1", "newpass1", PetQuestion, "Rex", TRUE),
      Form("alice", "a@x.com", "longpass1", "longpass1", PetQuestion, "Rex", FALSE) }

\* lines 525-534: the first failing check's message, or "" when all pass
signup_validate(f) ==
    IF f.username = "" \/ f.email = "" \/ f.password = "" \/ f.confirm_password = ""
       \/ f.security_answer = ""
    THEN "All fields are required!"
    ELSE IF ~re_match_email(f.email) THEN "Please enter a valid email address!"
    ELSE IF Len(f.password) < MinPasswordLen
    THEN "Password must be at least 8 characters long!"
    ELSE IF f.password # f.confirm_password THEN "Passwords do not match!"
    ELSE IF ~f.terms THEN "Please accept the terms!"
    ELSE ""

\* lines 524-537 and 80-89: "Create Account" up to save_user's existence check
SignupSubmit(s, f, fault) ==
    /\ Idle(s) /\ Screen(s) = "signup"
    /\ IF signup_validate(f) # ""
       THEN /\ fault = "none"
            /\ UNCHANGED <<users, openConns, pc, loc>>
       ELSE LET r == save_user_check(users, f.email, fault, clock)
            IN  /\ users' = r.db
                /\ openConns' = openConns + r.open
                /\ IF r.done
                   THEN UNCHANGED <<pc, loc>>
                   ELSE /\ pc' = [pc EXCEPT ![s] = "save_user_insert"]
                        /\ loc' = [loc EXCEPT ![s] =
                                     [NoLoc EXCEPT !.username = f.username,
                                                   !.email = f.email,
                                                   !.password = f.password,
                                                   !.security_question = f.security_question,
                                                   !.security_answer = f.security_answer,
                                                   !.call_failed = r.failed]]
    /\ Inject(fault)
    /\ UNCHANGED <<clock, jwt, page, reset, q, chat, issued, created, stats_lost, tok, vres, trip>>

\* lines 91-101 and 538-546: save_user's INSERT, then the token on success
SignupInsert(s, fault) ==
    /\ pc[s] = "save_user_insert"
    /\ LET l == loc[s]
           r == save_user_insert(users, l.username, l.email, l.password,
                                 l.security_question, l.security_answer, fault, clock)
       IN  /\ users' = r.db
           /\ openConns' = openConns + r.open
           /\ IF r.ok
              THEN /\ jwt' = [jwt EXCEPT ![s] = create_token(l.email, l.username, clock)]
                   /\ issued' = Bump(issued, l.email)
                   /\ created' = Bump(created, l.email)
                   /\ pc' = [pc EXCEPT ![s] = "signup_stats"]
                   /\ UNCHANGED loc
              ELSE /\ pc' = [pc EXCEPT ![s] = "idle"]
                   /\ loc' = [loc EXCEPT ![s] = NoLoc]
                   /\ UNCHANGED <<jwt, issued, created>>
    /\ Inject(fault)
    /\ UNCHANGED <<clock, page, reset, q, chat, stats_lost, tok, vres, trip>>

\* lines 540-544: update_login_stats, then st.rerun(): the dashboard comes up
SignupStats(s, fault) ==
    /\ pc[s] = "signup_stats"
    /\ LET r == update_login_stats(users, loc[s].email, fault, clock)
       IN  /\ users' = r.db
           /\ openConns' = openConns + r.open
           /\ stats_lost' = IF r.failed THEN Bump(stats_lost, loc[s].email) ELSE stats_lost
    /\ pc' = [pc EXCEPT ![s] = "idle"]
    /\ loc' = [loc EXCEPT ![s] = NoLoc]
    /\ chat' = [chat EXCEPT ![s] = Rendered(@)]
    /\ Inject(fault)
    /\ UNCHANGED <<clock, jwt, page, reset, q, issued, created, tok, vres, trip>>

\* lines 549-551
SignupBack(s) ==
    /\ Idle(s) /\ Screen(s) = "signup"
    /\ page' = [page EXCEPT ![s] = "login"]
    /\ UNCHANGED <<users, openConns, clock, jwt, reset, q, chat, pc, loc, issued,
                   created, stats_lost, faults, tok, vres, trip>>

(* ============================== login ================================= *)

\* lines 572-574
LoginForgot(s) ==
    /\ Idle(s) /\ Screen(s) = "login"
    /\ page' = [page EXCEPT ![s] = "forgot"]
    /\ UNCHANGED <<users, openConns, clock, jwt, reset, q, chat, pc, loc, issued,
                   created, stats_lost, faults, tok, vres, trip>>

\* the digest comparison left out
AnyPasswordAccepted(user, password) == user # None

\* line 583: the account was found and the digest of the typed password is
\* the stored one
CredentialsAccepted(user, password) ==
    user # None /\ user[2] = hash_password(password)

\* lines 577-584 and 590-591: "Sign In" up to the token
LoginSubmit(s, email, password, fault) ==
    /\ Idle(s) /\ Screen(s) = "login"
    /\ email \in Emails => issued[email] < MaxLogins
    /\ IF email = "" \/ password = ""
       THEN /\ fault = "none"
            /\ UNCHANGED <<users, openConns, jwt, pc, loc, issued>>
       ELSE LET user == get_user(users, email, fault, clock)
            IN  /\ users' = user.db
                /\ openConns' = openConns + user.open
                /\ IF CredentialsAccepted(user.value, password)
                   THEN /\ jwt' = [jwt EXCEPT ![s] = create_token(email, user.value[1], clock)]
                        /\ issued' = Bump(issued, email)
                        /\ pc' = [pc EXCEPT ![s] = "login_stats"]
                        /\ loc' = [loc EXCEPT ![s] = [NoLoc EXCEPT !.email = email]]
                   ELSE UNCHANGED <<jwt, pc, loc, issued>>
    /\ Inject(fault)
    /\ UNCHANGED <<clock, page, reset, q, chat, created, stats_lost, tok, vres, trip>>

\* lines 585-589: update_login_stats, then st.rerun(): the dashboard comes up
LoginStats(s, fault) ==
    /\ pc[s] = "login_stats"
    /\ LET r == update_login_stats(users, loc[s].email, fault, clock)
       IN  /\ users' = r.db
           /\ openConns' = openConns + r.open
           /\ stats_lost' = IF r.failed THEN Bump(stats_lost, loc[s].email) ELSE stats_lost
    /\ pc' = [pc EXCEPT ![s] = "idle"]
    /\ loc' = [loc EXCEPT ![s] = NoLoc]
    /\ chat' = [chat EXCEPT ![s] = Rendered(@)]
    /\ Inject(fault)
    /\ UNCHANGED <<clock, jwt, page, reset, q, issued, created, tok, vres, trip>>

\* lines 596-598
LoginCreate(s) ==
    /\ Idle(s) /\ Screen(s) = "login"
    /\ page' = [page EXCEPT ![s] = "signup"]
    /\ UNCHANGED <<users, openConns, clock, jwt, reset, q, chat, pc, loc, issued,
                   created, stats_lost, faults, tok, vres, trip>>

(* ============================== forgot ================================ *)

\* new password and its confirmation, as typed
ResetPasswords ==
    { <<"", "">>, <<"short", "short">>, <<"newpass1", "newpass1">>,
      <<"longpass1", "longpass1">>, <<"newpass1", "longpass1">> }

\* lines 613-628: "Verify Email"
ForgotVerifyEmail(s, email, fault) ==
    /\ Idle(s) /\ Screen(s) = "forgot"
    /\ ~Truthy(q[s])
    /\ IF email = ""
       THEN /\ fault = "none"
            /\ UNCHANGED <<users, openConns, reset, q>>
       ELSE LET question == get_question(users, email, fault, clock)
            IN  /\ users' = question.db
                /\ openConns' = openConns + question.open
                /\ IF Truthy(question.value)
                   THEN /\ reset' = [reset EXCEPT ![s] = email]
                        /\ q' = [q EXCEPT ![s] = question.value]
                   ELSE UNCHANGED <<reset, q>>
    /\ Inject(fault)
    /\ UNCHANGED <<clock, jwt, page, chat, pc, loc, issued, created, stats_lost, tok, vres, trip>>

\* lines 640-645: the first failing check's message, or "" when all pass
reset_validate(answer, new_password, confirm_new) ==
    IF answer = "" \/ new_password = "" THEN "Please fill all fields!"
    ELSE IF Len(new_password) < MinPasswordLen
    THEN "Password must be at least 8 characters!"
    ELSE IF new_password # confirm_new THEN "Passwords don't match!"
    ELSE ""

\* lines 630-648 and 657-658: "Reset Password" up to check_answer
ForgotReset(s, answer, new_password, confirm_new, fault) ==
    /\ Idle(s) /\ Screen(s) = "forgot"
    /\ Truthy(q[s])
    /\ IF reset_validate(answer, new_password, confirm_new) # ""
       THEN /\ fault = "none"
            /\ UNCHANGED <<users, openConns, pc, loc>>
       ELSE LET r == check_answer(users, reset[s], answer, fault, clock)
            IN  /\ users' = r.db
                /\ openConns' = openConns + r.open
                /\ IF r.value
                   THEN /\ pc' = [pc EXCEPT ![s] = "update_password"]
                        /\ loc' = [loc EXCEPT ![s] =
                                     [NoLoc EXCEPT !.new_password = new_password,
                                                   !.security_answer = answer]]
                   ELSE UNCHANGED <<pc, loc>>
    /\ Inject(fault)
    /\ UNCHANGED <<clock, jwt, page, reset, q, chat, issued, created, stats_lost, tok, vres, trip>>

\* the overwrite bound to the answer check: skipped while another session
\* stands between its own check and overwrite for the same account
ForgotUpdate_bound_to_check(s, fault) ==
    /\ pc[s] = "update_password"
    /\ LET r == update_password(users, reset[s], loc[s].new_password, fault, clock)
           raced == \E t \in Sessions \ {s} :
                        pc[t] = "update_password" /\ reset[t] = reset[s]
       IN  /\ users' = IF raced THEN users ELSE r.db
           /\ openConns' = openConns + r.open
    /\ q' = [q EXCEPT ![s] = NoneS]
    /\ reset' = [reset EXCEPT ![s] = NoneS]
    /\ page' = [page EXCEPT ![s] = "login"]
    /\ pc' = [pc EXCEPT ![s] = "idle"]
    /\ loc' = [loc EXCEPT ![s] = NoLoc]
    /\ Inject(fault)
    /\ UNCHANGED <<clock, jwt, chat, issued, created, stats_lost, tok, vres, trip>>

\* lines 649-656: update_password, whose result is not looked at, then back
\* to the login page
ForgotUpdate(s, fault) ==
    /\ pc[s] = "update_password"
    /\ LET r == update_password(users, reset[s], loc[s].new_password, fault, clock)
       IN  /\ users' = r.db
           /\ openConns' = openConns + r.open
    /\ q' = [q EXCEPT ![s] = NoneS]
    /\ reset' = [reset EXCEPT ![s] = NoneS]
    /\ page' = [page EXCEPT ![s] = "login"]
    /\ pc' = [pc EXCEPT ![s] = "idle"]
    /\ loc' = [loc EXCEPT ![s] = NoLoc]
    /\ Inject(fault)
    /\ UNCHANGED <<clock, jwt, chat, issued, created, stats_lost, tok, vres, trip>>

\* lines 661-664
ForgotBack(s) ==
    /\ Idle(s) /\ Screen(s) = "forgot"
    /\ Truthy(q[s])
    /\ q' = [q EXCEPT ![s] = NoneS]
    /\ reset' = [reset EXCEPT ![s] = NoneS]
    /\ UNCHANGED <<users, openConns, clock, jwt, page, chat, pc, loc, issued, created,
                   stats_lost, faults, tok, vres, trip>>

(* ============================ dashboard =============================== *)

\* lines 670-671: the token in the session is accepted
TokenValid(s) == verify_token(jwt[s], clock).value # None

\* lines 670-675: the token is rejected, the session falls back to login
DashboardInvalid(s) ==
    /\ Idle(s) /\ Screen(s) = "dashboard"
    /\ ~TokenValid(s)
    /\ jwt' = [jwt EXCEPT ![s] = None]
    /\ page' = [page EXCEPT ![s] = "login"]
    /\ UNCHANGED <<users, openConns, clock, reset, q, chat, pc, loc, issued, created,
                   stats_lost, faults, tok, vres, trip>>

\* lines 694-700: "New Chat"
NewChat(s) ==
    /\ Idle(s) /\ Screen(s) = "dashboard"
    /\ TokenValid(s)
    /\ chat' = [chat EXCEPT ![s] =
                  IF @.present THEN [@ EXCEPT !.chat_history = <<"bot">>] ELSE @]
    /\ UNCHANGED <<users, openConns, clock, jwt, page, reset, q, pc, loc, issued, created,
                   stats_lost, faults, tok, vres, trip>>

\* lines 717-720: "Logout"
Logout(s) ==
    /\ Idle(s) /\ Screen(s) = "dashboard"
    /\ TokenValid(s)
    /\ jwt' = [jwt EXCEPT ![s] = None]
    /\ page' = [page EXCEPT ![s] = "login"]
    /\ UNCHANGED <<users, openConns, clock, reset, q, chat, pc, loc, issued, created,
                   stats_lost, faults, tok, vres, trip>>

\* lines 760-777: "Send" with a non-empty message: the message and the
\* canned reply are appended (kept here by type only)
Send(s) ==
    /\ Idle(s) /\ Screen(s) = "dashboard"
    /\ TokenValid(s)
    /\ Len(chat[s].chat_history) + 2 <= MaxChat
    /\ chat[s].chat_input_key < MaxChat
    /\ chat' = [chat EXCEPT ![s] =
                  [Rendered(@) EXCEPT !.chat_history = @ \o <<"user", "bot">>,
                                      !.chat_input_key = @ + 1]]
    /\ UNCHANGED <<users, openConns, clock, jwt, page, reset, q, pc, loc, issued, created,
                   stats_lost, faults, tok, vres, trip>>

\* lines 785-815: one of the four quick-action buttons
QuickAction(s) ==
    /\ Idle(s) /\ Screen(s) = "dashboard"
    /\ TokenValid(s)
    /\ Len(chat[s].chat_history) + 1 <= MaxChat
    /\ chat' = [chat EXCEPT ![s] =
                  [Rendered(@) EXCEPT !.chat_history = Append(@, "user")]]
    /\ UNCHANGED <<users, openConns, clock, jwt, page, reset, q, pc, loc, issued, created,
                   stats_lost, faults, tok, vres, trip>>

(* ============================== clock ================================= *)

\* the last instant looked at: every token issued in the first ticks has
\* expired by then
LateTick == ExpireTicks + IssueSpan + TicksPerSecond

\* the instants looked at around a token's life: the first ticks, where it
\* is issued, and the ticks around its expiry
ClockPoints == (0..IssueSpan) \cup ((ExpireTicks - TicksPerSecond)..LateTick)

\* time passes, to one of the given instants
Tick(points) ==
    /\ \E t \in points : t > clock /\ clock' = t
    /\ UNCHANGED <<users, openConns, jwt, page, reset, q, chat, pc, loc, issued, created,
                   stats_lost, faults, tok, vres, trip>>


(* ================== the token functions on their own ================== *)

TokenUsers == {"alice", "bob"}

\* create_token is called
TokIssue(email, username) ==
    /\ clock <= IssueSpan
    /\ tok' = [token |-> create_token(email, username, clock), genuine |-> TRUE,
               email |-> email, username |-> username, issued_at |-> clock]
    /\ UNCHANGED <<users, openConns, clock, jwt, page, reset, q, chat, pc, loc, issued,
                   created, stats_lost, faults, vres, trip>>

\* the "exp" claims of tokens made elsewhere: long past, the expiry of a
\* token issued at tick 0, and beyond the instants looked at
ForgedExp == {0, ExpireTicks \div TicksPerSecond, LateTick}

ForgedPayloads ==
    {[sub |-> "a@x.com", username |-> "alice", exp |-> x] : x \in ForgedExp}

\* tokens that did not come from create_token: signed with the configured
\* secret by someone else, signed with another key, a payload changed after
\* signing, the "none" algorithm, and strings that are no JWS
ForgedTokens ==
    {<<ALGORITHM, p, Sign(p, SECRET_KEY)>> : p \in ForgedPayloads}
    \cup {<<ALGORITHM, p, Sign(p, OtherKey)>> : p \in ForgedPayloads}
    \cup {<<ALGORITHM, p, Sign([p EXCEPT !.exp = 0], SECRET_KEY)>> :
             p \in ForgedPayloads \ {[sub |-> "a@x.com", username |-> "alice", exp |-> 0]}}
    \cup {<<"none", p, Sign(p, "")>> : p \in ForgedPayloads}
    \cup {None, <<"garbage">>}
    \cup {<<ALGORITHM, p>> : p \in ForgedPayloads}

\* a token from elsewhere is presented
TokForge(t) ==
    /\ tok' = [NoTok EXCEPT !.token = t]
    /\ UNCHANGED <<users, openConns, clock, jwt, page, reset, q, chat, pc, loc, issued,
                   created, stats_lost, faults, vres, trip>>

\* verify_token is called on the token
TokVerify ==
    /\ vres' = [called |-> TRUE, call |-> tok,
                value |-> verify_token(tok.token, clock).value,
                raised |-> verify_token(tok.token, clock).raised,
                at |-> clock]
    /\ UNCHANGED <<users, openConns, clock, jwt, page, reset, q, chat, pc, loc, issued,
                   created, stats_lost, faults, tok, trip>>

NextToken ==
    \/ \E email \in Emails, username \in TokenUsers : TokIssue(email, username)
    \/ \E t \in ForgedTokens : TokForge(t)
    \/ TokVerify
    \/ Tick(ClockPoints)

SpecToken == Init /\ [][NextToken]_vars

(* ================== the store operations on their own ================= *)

\* one round trip of an operation: what the connection did, whether it
\* failed, and the table before and after it
TripOf(r, before) ==
    [trace |-> r.trace, failed |-> r.failed, before |-> before, after |-> r.db]

\* the signup forms that pass validation: the arguments save_user is called with
StoreForms == {f \in SignupForms : signup_validate(f) = ""}

StorePasswords == {"longpass1", "newpass1"}
StoreAnswers == {"Rex", "Tom"}

\* save_user is called (lines 80-103): one round trip when the email is
\* found, two otherwise
StoreSaveUser(f, fault1, fault2) ==
    LET c == save_user_check(users, f.email, fault1, clock)
        i == save_user_insert(c.db, f.username, f.email, f.password,
                              f.security_question, f.security_answer, fault2, clock)
    IN  /\ UNCHANGED <<clock, jwt, page, reset, q, chat, pc, loc, issued, created,
                       stats_lost, faults, tok, vres>>
        /\ IF c.done
           THEN /\ fault2 = "none"
                /\ users' = c.db
                /\ openConns' = openConns + c.open
                /\ trip' = [called |-> TRUE, op |-> "save_user", before |-> users,
                            trips |-> <<TripOf(c, users)>>]
           ELSE /\ users' = i.db
                /\ openConns' = openConns + c.open + i.open
                /\ trip' = [called |-> TRUE, op |-> "save_user", before |-> users,
                            trips |-> <<TripOf(c, users), TripOf(i, c.db)>>]

\* get_user is called
StoreGetUser(email, fault) ==
    LET r == get_user(users, email, fault, clock)
    IN  /\ users' = r.db
        /\ openConns' = openConns + r.open
        /\ trip' = [called |-> TRUE, op |-> "get_user", before |-> users,
                    trips |-> <<TripOf(r, users)>>]
        /\ UNCHANGED <<clock, jwt, page, reset, q, chat, pc, loc, issued, created,
                       stats_lost, faults, tok, vres>>

\* update_login_stats is called
StoreUpdateLoginStats(email, fault) ==
    LET r == update_login_stats(users, email, fault, clock)
    IN  /\ \A k \in 1..Len(users) : users[k].email = email => users[k].login_count < MaxLogins
        /\ users' = r.db
        /\ openConns' = openConns + r.open
        /\ trip' = [called |-> TRUE, op |-> "update_login_stats", before |-> users,
                    trips |-> <<TripOf(r, users)>>]
        /\ UNCHANGED <<clock, jwt, page, reset, q, chat, pc, loc, issued, created,
                       stats_lost, faults, tok, vres>>

\* get_question is called
StoreGetQuestion(email, fault) ==
    LET r == get_question(users, email, fault, clock)
    IN  /\ users' = r.db
        /\ openConns' = openConns + r.open
        /\ trip' = [called |-> TRUE, op |-> "get_question", before |-> users,
                    trips |-> <<TripOf(r, users)>>]
        /\ UNCHANGED <<clock, jwt, page, reset, q, chat, pc, loc, issued, created,
                       stats_lost, faults, tok, vres>>

\* check_answer is called
StoreCheckAnswer(email, ans, fault) ==
    LET r == check_answer(users, email, ans, fault, clock)
    IN  /\ users' = r.db
        /\ openConns' = openConns + r.open
        /\ trip' = [called |-> TRUE, op |-> "check_answer", before |-> users,
                    trips |-> <<TripOf(r, users)>>]
        /\ UNCHANGED <<clock, jwt, page, reset, q, chat, pc, loc, issued, created,
                       stats_lost, faults, tok, vres>>

\* update_password is called
StoreUpdatePassword(email, pwd, fault) ==
    LET r == update_password(users, email, pwd, fault, clock)
    IN  /\ users' = r.db
        /\ openConns' = openConns + r.open
        /\ trip' = [called |-> TRUE, op |-> "update_password", before |-> users,
                    trips |-> <<TripOf(r, users)>>]
        /\ UNCHANGED <<clock, jwt, page, reset, q, chat, pc, loc, issued, created,
                       stats_lost, faults, tok, vres>>

NextStore ==
    \/ \E f \in StoreForms, fault1, fault2 \in Faults : StoreSaveUser(f, fault1, fault2)
    \/ \E email \in Emails, fault \in Faults : StoreGetUser(email, fault)
    \/ \E email \in Emails, fault \in Faults : StoreUpdateLoginStats(email, fault)
    \/ \E email \in Emails, fault \in Faults : StoreGetQuestion(email, fault)
    \/ \E email \in Emails, ans \in StoreAnswers, fault \in Faults :
          StoreCheckAnswer(email, ans, fault)
    \/ \E email \in Emails, pwd \in StorePasswords, fault \in Faults :
          StoreUpdatePassword(email, pwd, fault)

SpecStore == Init /\ [][NextStore]_vars

(* ===================== the application as a whole ===================== *)

\* Two sessions on the one store; any round trip may fail.
Next ==
    \/ \E s \in Sessions, f \in SignupForms, fault \in Faults : SignupSubmit(s, f, fault)
    \/ \E s \in Sessions, fault \in Faults : SignupInsert(s, fault)
    \/ \E s \in Sessions, fault \in Faults : SignupStats(s, fault)
    \/ \E s \in Sessions : SignupBack(s)
    \/ \E s \in Sessions : LoginForgot(s)
    \/ \E s \in Sessions, email \in EmailInputs, password \in PasswordInputs,
          fault \in Faults : LoginSubmit(s, email, password, fault)
    \/ \E s \in Sessions, fault \in Faults : LoginStats(s, fault)
    \/ \E s \in Sessions : LoginCreate(s)
    \/ \E s \in Sessions, email \in EmailInputs, fault \in Faults :
          ForgotVerifyEmail(s, email, fault)
    \/ \E s \in Sessions, answer \in AnswerInputs, p \in ResetPasswords, fault \in Faults :
          ForgotReset(s, answer, p[1], p[2], fault)
    \/ \E s \in Sessions, fault \in Faults : ForgotUpdate(s, fault)
    \/ \E s \in Sessions : ForgotBack(s)
    \/ \E s \in Sessions : Logout(s)

Spec == Init /\ [][Next]_vars

\* One session through all its screens, while time passes.
NextSession ==
    \/ \E f \in SignupForms, fault \in Faults : SignupSubmit(1, f, fault)
    \/ \E fault \in Faults : SignupInsert(1, fault)
    \/ \E fault \in Faults : SignupStats(1, fault)
    \/ SignupBack(1)
    \/ LoginForgot(1)
    \/ \E email \in EmailInputs, password \in PasswordInputs, fault \in Faults :
          LoginSubmit(1, email, password, fault)
    \/ \E fault \in Faults : LoginStats(1, fault)
    \/ LoginCreate(1)
    \/ \E email \in EmailInputs, fault \in Faults : ForgotVerifyEmail(1, email, fault)
    \/ \E answer \in AnswerInputs, p \in ResetPasswords, fault \in Faults :
          ForgotReset(1, answer, p[1], p[2], fault)
    \/ \E fault \in Faults : ForgotUpdate(1, fault)
    \/ ForgotBack(1)
    \/ DashboardInvalid(1)
    \/ NewChat(1)
    \/ Logout(1)
    \/ Send(1)
    \/ QuickAction(1)
    \/ Tick({LateTick})

SpecSession == Init /\ [][NextSession]_vars


(* ============================== claims ================================ *)

\* the emails of the stored accounts, and the account of an email
HasAccount(db, email) == \E i \in 1..Len(db) : db[i].email = email
AccountOf(db, email) == db[CHOOSE i \in 1..Len(db) : db[i].email = email]

\* sessions with an INSERT for the email still to run whose existence check
\* ran, without failing, and found nothing
PendingInsert(s, email) ==
    pc[s] = "save_user_insert" /\ loc[s].email = email /\ ~loc[s].call_failed

\* C1: in every reachable state of the store no two accounts have the same
\* email, also when two save_user calls for one email both ran their
\* existence check before either INSERT.
C1_EmailUnique ==
    \A i, j \in 1..Len(users) : i # j => users[i].email # users[j].email

\* C1 witness: one session has inserted the account and is about to record
\* the login, while another session that passed the existence check for the
\* same email still has its INSERT to run.
C1_Witness ==
    \E s, t \in Sessions :
        /\ s # t
        /\ pc[s] = "signup_stats"
        /\ HasAccount(users, loc[s].email)
        /\ PendingInsert(t, loc[s].email)

\* C2 (as claimed): per email at most one save_user call succeeds, and a
\* save_user call that loses to another signup for the same email (its
\* INSERT finds the email present, no round trip having failed) returns
\* (False, "Email already exists") and adds no account.
C2_DuplicateEmailReason ==
    /\ [](\A e \in Emails : created[e] <= 1)
    /\ [][\A s \in Sessions :
            LET fault == "none" IN
            (SignupInsert(s, fault) /\ PendingInsert(s, loc[s].email)
                /\ HasAccount(users, loc[s].email)) =>
                LET l == loc[s]
                    r == save_user_insert(users, l.username, l.email, l.password,
                                          l.security_question, l.security_answer,
                                          fault, clock)
                IN  /\ ~r.ok
                    /\ r.message = "Email already exists"
                    /\ users' = users]_vars


\* what a verify_token call returned, for a token that came from create_token
VerifiedGenuine == vres.called /\ vres.call.genuine

\* the claims verify_token returned name the email and username given to
\* create_token
ReturnsIdentity ==
    /\ vres.value # None
    /\ vres.value[1].sub = vres.call.email
    /\ vres.value[1].username = vres.call.username

\* the instant the token's "exp" claim names, in ticks
ExpInstant(token) == token[2].exp * TicksPerSecond

\* C3 (as claimed): verify_token(create_token(email, username)) at any clock
\* value strictly before issue time + 30 minutes returns claims whose sub is
\* email and whose username is username.
C3_RoundTripBeforeIssuePlusWindow ==
    (VerifiedGenuine /\ vres.at < vres.call.issued_at + ExpireTicks) => ReturnsIdentity

\* C3 (amended): the same at any clock value strictly before the instant
\* the token's exp claim names, which is issue time + 30 minutes cut down
\* to a whole second.
C3_RoundTripBeforeExp ==
    (VerifiedGenuine /\ vres.at < ExpInstant(vres.call.token)) => ReturnsIdentity

\* C3 witness: a token issued between two whole seconds was verified in the
\* last whole second before its exp claim, and its claims came back.
C3_Witness ==
    /\ VerifiedGenuine
    /\ vres.call.issued_at % TicksPerSecond # 0
    /\ vres.at >= ExpInstant(vres.call.token) - TicksPerSecond
    /\ vres.at < ExpInstant(vres.call.token)
    /\ ReturnsIdentity

\* what the claim says of a token: it is a JWS of three segments, signed
\* over its payload with the key, and its expiry instant has passed
WellFormed(token) == Len(token) = 3
SignedWith(token, key) == WellFormed(token) /\ token[3] = Sign(token[2], key)
ExpiryPassed(token, now) == WellFormed(token) /\ ExpInstant(token) < now

\* C4: verify_token never raises; it returns None for a token whose expiry
\* instant has passed, for a token not signed with the configured secret
\* and for a malformed token; it returns claims, those of the token, only
\* for a correctly signed token whose expiry has not passed.
C4_VerifyRejects ==
    vres.called =>
        LET t == vres.call.token
        IN  /\ ~vres.raised
            /\ (~WellFormed(t) \/ ~SignedWith(t, SECRET_KEY) \/ ExpiryPassed(t, vres.at))
                  => vres.value = None
            /\ vres.value # None =>
                  /\ SignedWith(t, SECRET_KEY)
                  /\ ~ExpiryPassed(t, vres.at)
                  /\ vres.value = <<t[2]>>

\* C4 witness: a token signed with the configured secret was refused
\* because its expiry instant had passed.
C4_Witness ==
    /\ vres.called
    /\ SignedWith(vres.call.token, SECRET_KEY)
    /\ ExpiryPassed(vres.call.token, vres.at)
    /\ vres.value = None


\* the plaintext a stored digest was taken of, among the passwords typed here
PlaintextOf(digest) == CHOOSE p \in PasswordInputs : hash_password(p) = digest

\* C5: after an update_password(email, new) that the store carried out, on
\* an existing account, get_user(email) returns the digest of new and, when
\* new differs from the previous password, not the previous digest: a login
\* with the old password fails and one with the new password succeeds.
C5_ResetReplacesPassword ==
    [][\A s \in Sessions, fault \in Faults :
          (/\ ForgotUpdate(s, fault)
           /\ HasAccount(users, reset[s])
           /\ update_password(users, reset[s], loc[s].new_password, fault, clock).value) =>
              LET new == loc[s].new_password
                  old == PlaintextOf(AccountOf(users, reset[s]).password)
                  user == get_user(users', reset[s], "none", clock).value
              IN  /\ user # None
                  /\ user[2] = hash_password(new)
                  /\ CredentialsAccepted(user, new)
                  /\ new # old =>
                        /\ user[2] # AccountOf(users, reset[s]).password
                        /\ ~CredentialsAccepted(user, old)]_vars

\* C5 witness: the account of a@x.com, created with "longpass1", now holds
\* the digest of "newpass1".
C5_Witness ==
    /\ HasAccount(users, "a@x.com")
    /\ AccountOf(users, "a@x.com").password = hash_password("newpass1")

\* every reading of the step as a "Sign In" has the email of a stored account
\* and the password its digest was taken of
LoginAccepted(s) ==
    \A email \in EmailInputs, password \in PasswordInputs, fault \in Faults :
        LoginSubmit(s, email, password, fault) =>
            /\ HasAccount(users, email)
            /\ AccountOf(users, email).password = hash_password(password)

\* every reading of the step as the INSERT of a signup has save_user
\* returning success
SignupAccepted(s) ==
    \A fault \in Faults :
        SignupInsert(s, fault) =>
            save_user_insert(users, loc[s].username, loc[s].email, loc[s].password,
                             loc[s].security_question, loc[s].security_answer,
                             fault, clock).ok

\* the step is a "Sign In" or the INSERT of a signup of the session
AuthenticationStep(s) ==
    \/ \E email \in EmailInputs, password \in PasswordInputs, fault \in Faults :
          LoginSubmit(s, email, password, fault)
    \/ \E fault \in Faults : SignupInsert(s, fault)

\* C6: the session token goes from absent to present only in a successful
\* login (account found, digest matches) or a successful signup (save_user
\* returned success), and from present to absent only by logout or by the
\* dashboard finding it invalid or expired; no step replaces or extends a
\* token.
C6_TokenLifecycle ==
    [][\A s \in Sessions :
          /\ (jwt[s] = None /\ jwt'[s] # None) =>
                (AuthenticationStep(s) /\ LoginAccepted(s) /\ SignupAccepted(s))
          /\ (jwt[s] # None /\ jwt'[s] = None) =>
                \/ Logout(s)
                \/ DashboardInvalid(s) /\ verify_token(jwt[s], clock).value = None
          /\ (jwt[s] # None /\ jwt'[s] # None) => jwt'[s] = jwt[s]]_vars

\* C6 witness: a session that held a token and chatted on the dashboard is
\* anonymous again, its chat history still in the session state.
C6_Witness ==
    \E s \in Sessions :
        /\ jwt[s] = None
        /\ chat[s].present
        /\ Len(chat[s].chat_history) > 1
        /\ clock = LateTick

\* C7: no account's login_count ever decreases, and no account disappears,
\* whatever store operations the sessions interleave.
C7_LoginCountMonotonic ==
    [][\A i \in 1..Len(users) :
          /\ i <= Len(users')
          /\ users'[i].email = users[i].email
          /\ users'[i].login_count >= users[i].login_count]_vars

\* C7 witness: an account that has logged in MaxLogins times has had its
\* password reset.
C7_Witness ==
    \E i \in 1..Len(users) :
        /\ users[i].login_count = MaxLogins
        /\ users[i].email = "a@x.com"
        /\ users[i].password = hash_password("newpass1")

\* update_login_stats calls for the email that have not run yet
PendingStats(email) ==
    Cardinality({s \in Sessions : pc[s] \in {"signup_stats", "login_stats"}
                                  /\ loc[s].email = email})

LoginCount(email) == IF HasAccount(users, email) THEN AccountOf(users, email).login_count ELSE 0

\* C8 (as claimed): every token issued from the login or signup screen
\* raises login_count by one, so once the handlers have finished
\* login_count equals the number of tokens issued for that email.
C8_CountEqualsTokensIssued ==
    \A e \in Emails : PendingStats(e) = 0 => LoginCount(e) = issued[e]

\* C8 (amended): login_count equals the number of tokens issued for the
\* email less the update_login_stats calls that failed or have not run yet,
\* and last_login is stamped exactly when login_count is positive.
C8_CountEqualsStatsRecorded ==
    /\ \A e \in Emails : LoginCount(e) + stats_lost[e] + PendingStats(e) = issued[e]
    /\ \A i \in 1..Len(users) :
          (users[i].login_count > 0) <=> (users[i].last_login = <<CURRENT_TIMESTAMP(clock)>>)

\* C8 witness: two tokens issued for an email, one login recorded, one
\* update_login_stats lost, none pending.
C8_Witness ==
    \E e \in Emails :
        /\ issued[e] = 2 /\ LoginCount(e) = 1 /\ stats_lost[e] = 1 /\ PendingStats(e) = 0

\* the step is the session's update_login_stats call, and its UPDATE fails
StatsFail(s, fault) ==
    /\ fault # "none"
    /\ LoginStats(s, fault) \/ SignupStats(s, fault)

\* C9: when the UPDATE of update_login_stats fails, no exception leaves
\* update_login_stats, the session keeps the token it was given, and the
\* accounts (login_count, last_login) are as before.
C9_StatsFailureSwallowed ==
    [][\A s \in Sessions, fault \in Faults :
          StatsFail(s, fault) =>
              /\ ~update_login_stats(users, loc[s].email, fault, clock).raised
              /\ jwt[s] # None
              /\ jwt'[s] = jwt[s]
              /\ pc'[s] = "idle"
              /\ users' = users]_vars

\* C9 witness: a session is on the dashboard with its token although the
\* login was not recorded.
C9_Witness ==
    \E s \in Sessions :
        /\ Idle(s) /\ jwt[s] # None
        /\ stats_lost[jwt[s][2].sub] = 1
        /\ LoginCount(jwt[s][2].sub) = 0

\* C10 (as claimed): a round trip that fails raises nothing; get_user and
\* get_question return None, check_answer and the writes return False, and
\* the accounts are as before; a save_user call during which a round trip
\* failed returns (False, message) and adds no account.
C10_StoreFailureReported ==
    [][\A s \in Sessions, fault \in Faults \ {"none"} :
          /\ (\E f \in SignupForms : SignupSubmit(s, f, fault)) => users' = users
          /\ (\E email \in EmailInputs, password \in PasswordInputs :
                 /\ LoginSubmit(s, email, password, fault)
                 /\ get_user(users, email, fault, clock).value # None) => FALSE
          /\ (\E email \in EmailInputs : ForgotVerifyEmail(s, email, fault)) =>
                 (users' = users /\ q'[s] = q[s])
          /\ (\E answer \in AnswerInputs, p \in ResetPasswords :
                 ForgotReset(s, answer, p[1], p[2], fault)) =>
                 (users' = users /\ pc'[s] = "idle")
          /\ ForgotUpdate(s, fault) =>
                 /\ ~update_password(users, reset[s], loc[s].new_password, fault, clock).value
                 /\ users' = users
          /\ StatsFail(s, fault) => users' = users
          /\ \A g \in Faults :
                (SignupInsert(s, g) /\ (g # "none" \/ loc[s].call_failed)) =>
                    /\ ~save_user_insert(users, loc[s].username, loc[s].email,
                                         loc[s].password, loc[s].security_question,
                                         loc[s].security_answer, g, clock).ok
                    /\ users' = users]_vars


\* the connection of a round trip was opened, used and closed inside it:
\* nothing to close when connect failed; otherwise one connect, commit when
\* the statement succeeded and rollback when it did not, and close last
Scoped(t) ==
    IF t.trace[1] = "connect failed"
    THEN Len(t.trace) = 1 /\ t.failed
    ELSE /\ t.trace[1] = "connect"
         /\ t.trace[Len(t.trace)] = "close"
         /\ OpenAfter(t.trace) = 0
         /\ \A k \in 2..Len(t.trace) : t.trace[k] # "connect"
         /\ t.failed <=> (\E k \in 1..Len(t.trace) : t.trace[k] = "rollback")
         /\ ~t.failed <=> (\E k \in 1..Len(t.trace) : t.trace[k] = "commit")

\* C11: every store operation opens its own connection and has closed it
\* when it returns, after commit when the statement succeeded and after
\* rollback when it failed; no connection is open between two operations,
\* and a failed round trip leaves the table as it found it.
C11_ConnectionScoped ==
    /\ openConns = 0
    /\ trip.called =>
          \A k \in 1..Len(trip.trips) :
              /\ Scoped(trip.trips[k])
              /\ trip.trips[k].failed => trip.trips[k].after = trip.trips[k].before

\* C11 witness: a save_user call whose INSERT was refused by the UNIQUE
\* constraint after its existence check had failed: the connection of the
\* INSERT was rolled back and closed, and no connection is open.
C11_Witness ==
    /\ trip.called /\ trip.op = "save_user"
    /\ Len(trip.trips) = 2
    /\ trip.trips[2].failed
    /\ trip.trips[2].trace = <<"connect", "execute failed", "rollback", "close">>
    /\ HasAccount(users, "a@x.com")
    /\ openConns = 0


\* the session's answer check has passed and its overwrite is still to run
PendingReset(s, email) == pc[s] = "update_password" /\ reset[s] = email

\* C12: nothing binds check_answer to update_password: two reset flows for
\* one account can both pass the answer check before either overwrite; each
\* flow then ends as a success (q and reset cleared, page "login"), each
\* overwrite replaces the stored digest by that of its own new password, so
\* the digest ends as that of the overwrite that ran last and no other
\* password, the other flow's included, authenticates.
C12_ResetRace ==
    [][\A s \in Sessions :
          LET fault == "none" IN
          (ForgotUpdate(s, fault) /\ HasAccount(users, reset[s])) =>
              LET email == reset[s]
                  user == get_user(users', email, "none", clock).value
              IN  /\ page'[s] = "login" /\ q'[s] = NoneS /\ reset'[s] = NoneS
                  /\ AccountOf(users', email).password = hash_password(loc[s].new_password)
                  /\ CredentialsAccepted(user, loc[s].new_password)
                  /\ \A p \in PasswordInputs \ {loc[s].new_password} :
                        ~CredentialsAccepted(user, p)
                  /\ \A t \in Sessions \ {s} :
                        PendingReset(t, email) =>
                            (pc'[t] = "update_password" /\ reset'[t] = email)]_vars

\* C12 witness: two sessions have both passed the answer check for the same
\* account, with different new passwords, and neither overwrite has run.
C12_Witness ==
    \E s, t \in Sessions :
        /\ s # t
        /\ PendingReset(s, "a@x.com") /\ PendingReset(t, "a@x.com")
        /\ loc[s].new_password # loc[t].new_password
        /\ HasAccount(users, "a@x.com")


\* the accounts whose password digest the step changes
PasswordChanged ==
    {i \in 1..Len(users) : i <= Len(users') /\ users'[i].password # users[i].password}

\* C13: an existing account's password digest changes only in the reset
\* step of a session of the forgot flow, for the account whose email the
\* session holds in reset, and the answer given in that step hashes to that
\* account's stored security-answer digest; a wrong answer, a failed
\* validation or an answer that is right for another account changes no
\* account's digest.
C13_PasswordChangesOnlyByVerifiedReset ==
    [][PasswordChanged # {} =>
          /\ \E s \in Sessions, fault \in Faults : ForgotUpdate(s, fault)
          /\ \A s \in Sessions, fault \in Faults :
                ForgotUpdate(s, fault) =>
                    \A i \in PasswordChanged :
                        /\ users[i].email = reset[s]
                        /\ users[i].security_answer = hash_password(loc[s].security_answer)
                        /\ users'[i].password = hash_password(loc[s].new_password)]_vars

\* C13 witness: two accounts with different security answers; the password
\* of b@x.com was reset to "longpass1" and the account of a@x.com is as it
\* was created.
C13_Witness ==
    /\ HasAccount(users, "a@x.com") /\ HasAccount(users, "b@x.com")
    /\ AccountOf(users, "b@x.com").password = hash_password("longpass1")
    /\ AccountOf(users, "a@x.com").password = hash_password("longpass1")
    /\ AccountOf(users, "a@x.com").security_answer
          # AccountOf(users, "b@x.com").security_answer


\* C14: whenever a session holds a token, the store has an account whose
\* email is the token's sub and whose username is the token's username,
\* also while signups for one email race.
C14_TokenNamesAccount ==
    \A s \in Sessions :
        jwt[s] # None =>
            \E i \in 1..Len(users) :
                /\ users[i].email = jwt[s][2].sub
                /\ users[i].username = jwt[s][2].username

\* C14 witness: a session holds the token of the signup that won, while
\* another session's signup for the same email under another username has
\* passed its existence check and still has its INSERT to run.
C14_Witness ==
    \E s, t \in Sessions :
        /\ jwt[s] # None
        /\ PendingInsert(t, jwt[s][2].sub)
        /\ loc[t].username # jwt[s][2].username


\* q and reset of every session are both set or both clear, and q, when
\* set, is the stored security question of the account with email reset
QuestionHeld ==
    \A s \in Sessions :
        /\ Truthy(q[s]) <=> Truthy(reset[s])
        /\ Truthy(q[s]) =>
              /\ HasAccount(users, reset[s])
              /\ AccountOf(users, reset[s]).security_question = q[s]

\* a session on the forgot page holds no token
ForgotAnonymous == \A s \in Sessions : page[s] = "forgot" => jwt[s] = None

\* Back clears q and reset and stays on the forgot page
BackStays ==
    \A s \in Sessions :
        ForgotBack(s) => (page'[s] = "forgot" /\ q'[s] = NoneS /\ reset'[s] = NoneS)

\* the page leaves "forgot" only for "login", and only in the last step of
\* the session's reset handler
LeavesForgotByReset(s) ==
    (page[s] = "forgot" /\ page'[s] # "forgot") =>
        /\ page'[s] = "login"
        /\ \E fault \in Faults : ForgotUpdate(s, fault)

\* the overwrite of the session's reset took effect: the account's stored
\* digest is that of the new password typed
OverwriteTookEffect(s) ==
    /\ HasAccount(users', reset[s])
    /\ AccountOf(users', reset[s]).password = hash_password(loc[s].new_password)

\* C15 (as claimed): q and reset are both set or both clear and q is the
\* stored question of the account reset names; a session on the forgot page
\* is anonymous; Back stays on the forgot page; and the page goes from
\* "forgot" back to "login" only in a step in which the reset succeeded.
C15_ForgotFlowState ==
    /\ [](QuestionHeld /\ ForgotAnonymous)
    /\ [][/\ BackStays
          /\ \A s \in Sessions :
                /\ LeavesForgotByReset(s)
                /\ (page[s] = "forgot" /\ page'[s] # "forgot") => OverwriteTookEffect(s)]_vars

\* what holds of C15: all of it but the success of the reset in the step
\* that goes back to "login"
C15_ForgotFlowStateButSuccess ==
    /\ [](QuestionHeld /\ ForgotAnonymous)
    /\ [][BackStays /\ \A s \in Sessions : LeavesForgotByReset(s)]_vars


\* the step ends the session's forgot flow as a success: q and reset
\* cleared, page "login"
ReportsSuccess(s) ==
    /\ page[s] = "forgot" /\ Truthy(q[s])
    /\ page'[s] = "login" /\ q'[s] = NoneS /\ reset'[s] = NoneS

\* C16 (as claimed): in every step that ends the forgot flow as a success,
\* the stored password digest of the account is hash_password(new_password)
\* right after update_password returned, also when the store failed between
\* the answer check and the overwrite.
C16_SuccessMeansOverwritten ==
    [][\A s \in Sessions, fault \in Faults :
          (ForgotUpdate(s, fault) /\ ReportsSuccess(s)) =>
              /\ update_password(users, reset[s], loc[s].new_password, fault, clock).value
              /\ get_user(users', reset[s], "none", clock).value # None
              /\ get_user(users', reset[s], "none", clock).value[2]
                    = hash_password(loc[s].new_password)]_vars

====
